---- MODULE Spec2Model ----
(***************************************************************************)
(* Model of the trust-game crate (charm-apps/trust-game/src): the round    *)
(* engine and reputation calculator of lib.rs, the governance ledger of    *)
(* governance.rs and the entry point of main.rs.                           *)
(*                                                                         *)
(* Integer widths.  TLC's integers are 32-bit signed, so an i32 is a plain *)
(* integer whose additions are checked against MinI32..MaxI32, and a u32   *)
(* that carries voting power is a pair of 16-bit limbs [hi, lo] standing   *)
(* for hi * 2^16 + lo.  A Rust `+` / `+=` that overflows panics when the   *)
(* crate is built with overflow checks (the dev and test profiles) and     *)
(* wraps otherwise (the release profile): the variable overflow_checks is  *)
(* the build, chosen in Init, and panicked records that the process died.  *)
(* Vote counts, ids and rounds are u32 too, but they grow by 1 per call    *)
(* and stay below the bounds of the model, so they are plain naturals.     *)
(***************************************************************************)
EXTENDS Integers, Sequences, FiniteSets, TLC

VARIABLES
    overflow_checks,   \* TRUE: overflow panics (dev build); FALSE: it wraps (release build)
    panicked,          \* the process has panicked; nothing runs afterwards
    next_proposal_id,  \* GovernanceState.next_proposal_id
    proposals,         \* GovernanceState.proposals      : Seq(GovernanceProposal)
    voting_rounds,     \* GovernanceState.voting_rounds  : Seq(VotingRound)
    dependent_apps,    \* GovernanceState.dependent_apps : Seq(DependentApp)
    state,             \* RoundValidator.state           : GameState
    last,              \* the last call made: operation, arguments, result
    voted_ok,          \* history: <<proposal_id, address>> pairs whose vote returned Ok
    exec_true,         \* history: ids for which execute_proposal returned Ok(true)
    closed_failed,     \* history: <<id, counters>> at each Ok(false) of execute_proposal after voting closed
    reg_times,         \* history: the host's timestamp at each register_dependent_app that returned Ok
    calls,             \* history: number of play_round calls made
    prover,            \* the run of the entry point (main.rs): position, input, locals, output
    pending,           \* the vote call that holds the ledger's exclusive borrow, if any
    counts             \* the counts a caller holds to pass to calculate_from_moves

vars == <<overflow_checks, panicked, next_proposal_id, proposals, voting_rounds,
          dependent_apps, state, last, voted_ok, exec_true, closed_failed,
          reg_times, calls, prover, pending, counts>>

govVars == <<next_proposal_id, proposals, voting_rounds, dependent_apps>>
govHist == <<voted_ok, exec_true, closed_failed, reg_times>>
procVars == <<prover, pending, counts>>

----------------------------------------------------------------------------
(* Bounds of the model *)

MaxLedger == 3
MaxRounds == 3
MaxCalls == 5
MaxMoves == 40
MaxMoveCodes == 3

----------------------------------------------------------------------------
(* Machine integers *)

Limb == 2 ^ 16

U32(h, l) == [hi |-> h, lo |-> l]

U32Zero == U32(0, 0)
U32Max == U32(Limb - 1, Limb - 1)

\* a + b on u32: the wrapped sum and whether the exact sum left the type
U32Add(a, b) ==
    LET lo == a.lo + b.lo
        hi == a.hi + b.hi + (lo \div Limb)
    IN  [val |-> U32(hi % Limb, lo % Limb), overflow |-> hi >= Limb]

\* a / 2 on u32
U32Half(a) == U32(a.hi \div 2, ((a.hi % 2) * (Limb \div 2)) + (a.lo \div 2))

\* a > b on u32
U32Gt(a, b) == a.hi > b.hi \/ (a.hi = b.hi /\ a.lo > b.lo)

MaxI32 == 2147483647
MinI32 == (-MaxI32) - 1

\* a + b on i32: the wrapped sum and whether the exact sum left the type
I32Add(a, b) ==
    IF b > 0 /\ a > MaxI32 - b
    THEN [val |-> (a + MinI32) + (b + MinI32), overflow |-> TRUE]
    ELSE IF b < 0 /\ a < MinI32 - b
    THEN [val |-> (a + MaxI32 + 1) + (b + MaxI32 + 1), overflow |-> TRUE]
    ELSE [val |-> a + b, overflow |-> FALSE]

----------------------------------------------------------------------------
(* Results of calls: Result<T, String>, or a panic *)

OkUnit == [kind |-> "Ok", msg |-> "", flag |-> FALSE, id |-> 0]
OkBool(b) == [kind |-> "Ok", msg |-> "", flag |-> b, id |-> 0]
OkId(i) == [kind |-> "Ok", msg |-> "", flag |-> FALSE, id |-> i]
Err(m) == [kind |-> "Err", msg |-> m, flag |-> FALSE, id |-> 0]
Panic == [kind |-> "Panic", msg |-> "attempt to add with overflow", flag |-> FALSE, id |-> 0]
\* the value of a function that returns bool, and of one that returns a
\* pair (the pair itself is the outcome of the call)
RetBool(b) == [kind |-> "Bool", msg |-> "", flag |-> b, id |-> 0]
RetPair == [kind |-> "Pair", msg |-> "", flag |-> FALSE, id |-> 0]

ProposalNotFound == Err("Proposal not found")
VotingClosed == Err("Voting period has ended")
AlreadyVoted(address) == Err("Player " \o address \o " has already voted")
AlreadyExecuted == Err("Proposal already executed")
GameFinished == Err("Game already finished")
DuplicateApp(app_id) == Err("App " \o app_id \o " already registered")
AppNotFound(app_id) == Err("App " \o app_id \o " not found")

----------------------------------------------------------------------------
(* Governance ledger: governance.rs *)

ProposalType == {"ChangePayoff", "AddStrategy", "ChangeGovernance"}

Vote == {"Yes", "No", "Abstain"}

\* GovernanceProposal::new
GovernanceProposalNew(id, proposal_type, description) ==
    [id |-> id,
     proposal_type |-> proposal_type,
     description |-> description,
     voting_round |-> 0,
     total_voting_rounds |-> 3,
     yes_votes |-> 0,
     no_votes |-> 0,
     abstain_votes |-> 0,
     yes_voting_power |-> U32Zero,
     no_voting_power |-> U32Zero,
     abstain_voting_power |-> U32Zero,
     executed |-> FALSE]

\* is_voting_open without the test of the voting round
IsVotingOpen_IgnoresRound(p) == ~p.executed

\* GovernanceProposal::is_voting_open
IsVotingOpen(p) == (~p.executed) /\ p.voting_round < p.total_voting_rounds

\* GovernanceProposal::has_passed: [val, panic]; the two additions of the
\* total are made left to right in u32
HasPassed(p, checks) ==
    LET s1 == U32Add(p.yes_voting_power, p.no_voting_power)
        s2 == U32Add(s1.val, p.abstain_voting_power)
        total_voting_power == s2.val
    IN  IF checks /\ (s1.overflow \/ s2.overflow)
        THEN [val |-> FALSE, panic |-> TRUE]
        ELSE IF total_voting_power = U32Zero
        THEN [val |-> FALSE, panic |-> FALSE]
        ELSE [val |-> U32Gt(p.yes_voting_power, U32Half(total_voting_power)),
              panic |-> FALSE]

\* advance_round without the cap at total_voting_rounds
AdvanceRound_NoCap(p) == [p EXCEPT !.voting_round = @ + 1]

\* GovernanceProposal::advance_round
AdvanceRound(p) ==
    IF p.voting_round < p.total_voting_rounds
    THEN [p EXCEPT !.voting_round = @ + 1]
    ELSE p

\* VotingRound::new
VotingRoundNew(proposal_id) ==
    [proposal_id |-> proposal_id, votes |-> <<>>, voted_addresses |-> <<>>]

\* has_voted comparing the last voter only
HasVoted_LastOnly(vr, address) ==
    /\ Len(vr.voted_addresses) > 0
    /\ vr.voted_addresses[Len(vr.voted_addresses)] = address

\* VotingRound::has_voted
HasVoted(vr, address) ==
    \E i \in 1..Len(vr.voted_addresses) : vr.voted_addresses[i] = address

\* VotingRound::cast_vote: [vr, result]
CastVote(vr, address, vote, voter_reputation, voting_power, timestamp) ==
    IF HasVoted(vr, address)
    THEN [vr |-> vr, result |-> AlreadyVoted(address)]
    ELSE [vr |-> [vr EXCEPT
                    !.votes = Append(@, [address |-> address,
                                         proposal_id |-> vr.proposal_id,
                                         vote |-> vote,
                                         voter_reputation |-> voter_reputation,
                                         voting_power |-> voting_power,
                                         timestamp |-> timestamp]),
                    !.voted_addresses = Append(@, address)],
          result |-> OkUnit]

\* GovernanceState::new
GovernanceStateNew ==
    [next_proposal_id |-> 1, proposals |-> <<>>, voting_rounds |-> <<>>,
     dependent_apps |-> <<>>]

\* the ledger as one record
Gov == [next_proposal_id |-> next_proposal_id, proposals |-> proposals,
        voting_rounds |-> voting_rounds, dependent_apps |-> dependent_apps]

\* iter().find(|p| p.id == id) as an index into proposals, 0 for None
FindProposal(g, id) ==
    IF \E i \in 1..Len(g.proposals) : g.proposals[i].id = id
    THEN CHOOSE i \in 1..Len(g.proposals) :
            /\ g.proposals[i].id = id
            /\ \A j \in 1..(i - 1) : g.proposals[j].id # id
    ELSE 0

\* iter().find(|vr| vr.proposal_id == proposal_id) as an index, 0 for None
FindVotingRound(g, proposal_id) ==
    IF \E i \in 1..Len(g.voting_rounds) : g.voting_rounds[i].proposal_id = proposal_id
    THEN CHOOSE i \in 1..Len(g.voting_rounds) :
            /\ g.voting_rounds[i].proposal_id = proposal_id
            /\ \A j \in 1..(i - 1) : g.voting_rounds[j].proposal_id # proposal_id
    ELSE 0

\* create_proposal that stops advancing next_proposal_id after the first
\* proposal
CreateProposal_StaleId(g, proposal_type, description) ==
    LET id == g.next_proposal_id
    IN  [gov |-> [g EXCEPT
                    !.next_proposal_id = IF id = 1 THEN 2 ELSE id,
                    !.proposals = Append(@, GovernanceProposalNew(id, proposal_type, description)),
                    !.voting_rounds = Append(@, VotingRoundNew(id))],
         result |-> OkId(id)]

\* GovernanceState::create_proposal: [gov, result]
CreateProposal(g, proposal_type, description) ==
    LET id == g.next_proposal_id
    IN  [gov |-> [g EXCEPT
                    !.next_proposal_id = id + 1,
                    !.proposals = Append(@, GovernanceProposalNew(id, proposal_type, description)),
                    !.voting_rounds = Append(@, VotingRoundNew(id))],
         result |-> OkId(id)]

\* one iteration of the tally loop of vote (lines 332-347): the count is
\* incremented, then the power is added; [proposal, panic]
TallyOne(p, pv, checks) ==
    LET cur == CASE pv.vote = "Yes" -> p.yes_voting_power
                 [] pv.vote = "No" -> p.no_voting_power
                 [] pv.vote = "Abstain" -> p.abstain_voting_power
        sum == U32Add(cur, pv.voting_power)
        counted == CASE pv.vote = "Yes" -> [p EXCEPT !.yes_votes = @ + 1]
                     [] pv.vote = "No" -> [p EXCEPT !.no_votes = @ + 1]
                     [] pv.vote = "Abstain" -> [p EXCEPT !.abstain_votes = @ + 1]
    IN  IF checks /\ sum.overflow
        THEN [proposal |-> counted, panic |-> TRUE]
        ELSE [proposal |->
                CASE pv.vote = "Yes" -> [counted EXCEPT !.yes_voting_power = sum.val]
                  [] pv.vote = "No" -> [counted EXCEPT !.no_voting_power = sum.val]
                  [] pv.vote = "Abstain" -> [counted EXCEPT !.abstain_voting_power = sum.val],
              panic |-> FALSE]

\* the tally loop of vote over votes[i..]: [proposal, panic]
RECURSIVE TallyFrom(_, _, _, _)
TallyFrom(p, votes, i, checks) ==
    IF i > Len(votes)
    THEN [proposal |-> p, panic |-> FALSE]
    ELSE LET one == TallyOne(p, votes[i], checks)
         IN  IF one.panic THEN one
             ELSE TallyFrom(one.proposal, votes, i + 1, checks)

\* the retally of vote (lines 321-349): zero the six counters, then recount
\* from the whole vote list; [proposal, panic]
Retally(p, votes, checks) ==
    TallyFrom([p EXCEPT !.yes_votes = 0, !.no_votes = 0, !.abstain_votes = 0,
                        !.yes_voting_power = U32Zero,
                        !.no_voting_power = U32Zero,
                        !.abstain_voting_power = U32Zero],
              votes, 1, checks)

\* vote writing the retally into the first proposal instead of the one found
GovVote_TalliesFirst(g, checks, proposal_id, address, vote, voter_reputation, voting_power, timestamp) ==
    LET pi == FindProposal(g, proposal_id)
        vi == FindVotingRound(g, proposal_id)
    IN  IF pi = 0
        THEN [gov |-> g, result |-> ProposalNotFound]
        ELSE IF ~IsVotingOpen(g.proposals[pi])
        THEN [gov |-> g, result |-> VotingClosed]
        ELSE IF vi = 0
        THEN [gov |-> g, result |-> OkUnit]
        ELSE LET cast == CastVote(g.voting_rounds[vi], address, vote,
                                  voter_reputation, voting_power, timestamp)
                 tallied == Retally(g.proposals[1], cast.vr.votes, checks)
             IN  IF cast.result.kind = "Err"
                 THEN [gov |-> g, result |-> cast.result]
                 ELSE [gov |-> [g EXCEPT !.voting_rounds[vi] = cast.vr,
                                         !.proposals[1] = tallied.proposal],
                       result |-> IF tallied.panic THEN Panic ELSE OkUnit]

\* GovernanceState::vote: [gov, result]
GovVote(g, checks, proposal_id, address, vote, voter_reputation, voting_power, timestamp) ==
    LET pi == FindProposal(g, proposal_id)
        vi == FindVotingRound(g, proposal_id)
    IN  IF pi = 0
        THEN [gov |-> g, result |-> ProposalNotFound]
        ELSE IF ~IsVotingOpen(g.proposals[pi])
        THEN [gov |-> g, result |-> VotingClosed]
        ELSE IF vi = 0
        THEN [gov |-> g, result |-> OkUnit]
        ELSE LET cast == CastVote(g.voting_rounds[vi], address, vote,
                                  voter_reputation, voting_power, timestamp)
                 tallied == Retally(g.proposals[pi], cast.vr.votes, checks)
             IN  IF cast.result.kind = "Err"
                 THEN [gov |-> g, result |-> cast.result]
                 ELSE [gov |-> [g EXCEPT !.voting_rounds[vi] = cast.vr,
                                         !.proposals[pi] = tallied.proposal],
                       result |-> IF tallied.panic THEN Panic ELSE OkUnit]

\* The two halves of vote, for callers that share the ledger.  The first
\* (lines 290-318) ends with the vote appended to the log: [gov, result,
\* appended], where appended tells that the tally is still to run.
VoteCast(g, proposal_id, address, vote, voter_reputation, voting_power, timestamp) ==
    LET pi == FindProposal(g, proposal_id)
        vi == FindVotingRound(g, proposal_id)
    IN  IF pi = 0
        THEN [gov |-> g, result |-> ProposalNotFound, appended |-> FALSE]
        ELSE IF ~IsVotingOpen(g.proposals[pi])
        THEN [gov |-> g, result |-> VotingClosed, appended |-> FALSE]
        ELSE IF vi = 0
        THEN [gov |-> g, result |-> OkUnit, appended |-> FALSE]
        ELSE LET cast == CastVote(g.voting_rounds[vi], address, vote,
                                  voter_reputation, voting_power, timestamp)
             IN  IF cast.result.kind = "Err"
                 THEN [gov |-> g, result |-> cast.result, appended |-> FALSE]
                 ELSE [gov |-> [g EXCEPT !.voting_rounds[vi] = cast.vr],
                       result |-> OkUnit, appended |-> TRUE]

\* The second half (lines 321-351) recounts the proposal from the log:
\* [gov, result]
VoteTally(g, checks, proposal_id) ==
    LET pi == FindProposal(g, proposal_id)
        vi == FindVotingRound(g, proposal_id)
        tallied == Retally(g.proposals[pi], g.voting_rounds[vi].votes, checks)
    IN  [gov |-> [g EXCEPT !.proposals[pi] = tallied.proposal],
         result |-> IF tallied.panic THEN Panic ELSE OkUnit]

\* execute_proposal without the test of the executed flag
ExecuteProposal_NoExecutedCheck(g, checks, proposal_id) ==
    LET pi == FindProposal(g, proposal_id)
    IN  IF pi = 0
        THEN [gov |-> g, result |-> ProposalNotFound]
        ELSE LET passed == HasPassed(g.proposals[pi], checks)
             IN  IF passed.panic
                 THEN [gov |-> g, result |-> Panic]
                 ELSE [gov |-> IF passed.val
                               THEN [g EXCEPT !.proposals[pi].executed = TRUE]
                               ELSE g,
                       result |-> OkBool(passed.val)]

\* execute_proposal marking the proposal executed whatever has_passed says
ExecuteProposal_AlwaysMarks(g, checks, proposal_id) ==
    LET pi == FindProposal(g, proposal_id)
    IN  IF pi = 0
        THEN [gov |-> g, result |-> ProposalNotFound]
        ELSE IF g.proposals[pi].executed
        THEN [gov |-> g, result |-> AlreadyExecuted]
        ELSE LET passed == HasPassed(g.proposals[pi], checks)
             IN  IF passed.panic
                 THEN [gov |-> g, result |-> Panic]
                 ELSE [gov |-> [g EXCEPT !.proposals[pi].executed = TRUE],
                       result |-> OkBool(passed.val)]

\* GovernanceState::execute_proposal: [gov, result]
ExecuteProposal(g, checks, proposal_id) ==
    LET pi == FindProposal(g, proposal_id)
    IN  IF pi = 0
        THEN [gov |-> g, result |-> ProposalNotFound]
        ELSE IF g.proposals[pi].executed
        THEN [gov |-> g, result |-> AlreadyExecuted]
        ELSE LET passed == HasPassed(g.proposals[pi], checks)
             IN  IF passed.panic
                 THEN [gov |-> g, result |-> Panic]
                 ELSE [gov |-> IF passed.val
                               THEN [g EXCEPT !.proposals[pi].executed = TRUE]
                               ELSE g,
                       result |-> OkBool(passed.val)]

\* get_proposal_mut(id) followed by GovernanceProposal::advance_round
GovAdvanceRound(g, proposal_id) ==
    LET pi == FindProposal(g, proposal_id)
    IN  IF pi = 0 THEN g
        ELSE [g EXCEPT !.proposals[pi] = AdvanceRound(@)]

\* iter().find(|a| a.app_id == app_id) as an index into dependent_apps, 0
\* for None
FindApp(g, app_id) ==
    IF \E i \in 1..Len(g.dependent_apps) : g.dependent_apps[i].app_id = app_id
    THEN CHOOSE i \in 1..Len(g.dependent_apps) :
            /\ g.dependent_apps[i].app_id = app_id
            /\ \A j \in 1..(i - 1) : g.dependent_apps[j].app_id # app_id
    ELSE 0

\* register_dependent_app rejecting only an entry equal in id and name
RegisterDependentApp_ComparesName(g, app_id, app_name, min_reputation_tier) ==
    IF \E i \in 1..Len(g.dependent_apps) :
          /\ g.dependent_apps[i].app_id = app_id
          /\ g.dependent_apps[i].app_name = app_name
    THEN [gov |-> g, result |-> DuplicateApp(app_id)]
    ELSE [gov |-> [g EXCEPT !.dependent_apps =
                     Append(@, [app_id |-> app_id,
                                app_name |-> app_name,
                                min_reputation_tier |-> min_reputation_tier,
                                registered_at |-> 0])],
          result |-> OkUnit]

\* register_dependent_app pushing the entry before it looks for a duplicate
RegisterDependentApp_PushesFirst(g, app_id, app_name, min_reputation_tier) ==
    LET pushed == [g EXCEPT !.dependent_apps =
                     Append(@, [app_id |-> app_id,
                                app_name |-> app_name,
                                min_reputation_tier |-> min_reputation_tier,
                                registered_at |-> 0])]
    IN  IF \E i \in 1..Len(g.dependent_apps) : g.dependent_apps[i].app_id = app_id
        THEN [gov |-> pushed, result |-> DuplicateApp(app_id)]
        ELSE [gov |-> pushed, result |-> OkUnit]

\* GovernanceState::register_dependent_app: [gov, result]; the entry's
\* registered_at is the literal 0 of line 407
RegisterDependentApp(g, app_id, app_name, min_reputation_tier) ==
    IF \E i \in 1..Len(g.dependent_apps) : g.dependent_apps[i].app_id = app_id
    THEN [gov |-> g, result |-> DuplicateApp(app_id)]
    ELSE [gov |-> [g EXCEPT !.dependent_apps =
                     Append(@, [app_id |-> app_id,
                                app_name |-> app_name,
                                min_reputation_tier |-> min_reputation_tier,
                                registered_at |-> 0])],
          result |-> OkUnit]

\* check_app_eligibility requiring a tier above the app's minimum
CheckAppEligibility_Above(g, app_id, user_tier) ==
    LET ai == FindApp(g, app_id)
    IN  IF ai = 0
        THEN AppNotFound(app_id)
        ELSE OkBool(user_tier > g.dependent_apps[ai].min_reputation_tier)

\* GovernanceState::check_app_eligibility: the result; it takes &self
CheckAppEligibility(g, app_id, user_tier) ==
    LET ai == FindApp(g, app_id)
    IN  IF ai = 0
        THEN AppNotFound(app_id)
        ELSE OkBool(user_tier >= g.dependent_apps[ai].min_reputation_tier)

----------------------------------------------------------------------------
(* Round engine: lib.rs *)

Move == {"Cooperate", "Defect"}

\* impl Default for PayoffMatrix
PayoffMatrixDefault == [r |-> 2, s |-> -1, t |-> 3, p |-> 0]

\* GameState::new_with_payoffs
GameStateNewWithPayoffs(total_rounds, payoff_matrix) ==
    [round |-> 0,
     total_rounds |-> total_rounds,
     payoff_matrix |-> payoff_matrix,
     score_1 |-> 0,
     score_2 |-> 0,
     history_1 |-> <<>>,
     history_2 |-> <<>>]

\* GameState::new
GameStateNew(total_rounds) ==
    GameStateNewWithPayoffs(total_rounds, PayoffMatrixDefault)

\* get_payoffs paying the defector's T to the player who cooperated
GetPayoffs_Unswapped(move_1, move_2, payoff_matrix) ==
    CASE move_1 = "Cooperate" /\ move_2 = "Cooperate" -> <<payoff_matrix.r, payoff_matrix.r>>
      [] move_1 = "Cooperate" /\ move_2 = "Defect" -> <<payoff_matrix.t, payoff_matrix.s>>
      [] move_1 = "Defect" /\ move_2 = "Cooperate" -> <<payoff_matrix.t, payoff_matrix.s>>
      [] move_1 = "Defect" /\ move_2 = "Defect" -> <<payoff_matrix.p, payoff_matrix.p>>

\* get_payoffs
GetPayoffs(move_1, move_2, payoff_matrix) ==
    CASE move_1 = "Cooperate" /\ move_2 = "Cooperate" -> <<payoff_matrix.r, payoff_matrix.r>>
      [] move_1 = "Cooperate" /\ move_2 = "Defect" -> <<payoff_matrix.s, payoff_matrix.t>>
      [] move_1 = "Defect" /\ move_2 = "Cooperate" -> <<payoff_matrix.t, payoff_matrix.s>>
      [] move_1 = "Defect" /\ move_2 = "Defect" -> <<payoff_matrix.p, payoff_matrix.p>>

NoOutcome == [move_1 |-> "", move_2 |-> "", payoff_1 |-> 0, payoff_2 |-> 0]

\* validate_move without the test of the matrix
ValidateMove_AnyMatrix(st, move_1, move_2, claimed_payoff_1, claimed_payoff_2) ==
    IF st.round >= st.total_rounds
    THEN FALSE
    ELSE LET actual == GetPayoffs(move_1, move_2, st.payoff_matrix)
         IN  IF claimed_payoff_1 # actual[1] \/ claimed_payoff_2 # actual[2]
             THEN FALSE
             ELSE TRUE

\* validate_move
ValidateMove(st, move_1, move_2, claimed_payoff_1, claimed_payoff_2) ==
    IF st.round >= st.total_rounds
    THEN FALSE
    ELSE LET actual == GetPayoffs(move_1, move_2, st.payoff_matrix)
         IN  IF claimed_payoff_1 # actual[1] \/ claimed_payoff_2 # actual[2]
             THEN FALSE
             ELSE IF st.payoff_matrix.r <= st.payoff_matrix.p
             THEN FALSE
             ELSE TRUE

\* a tit-for-tat that copies the opponent's first move
ValidateTftStrategy_FirstMove(st, proposed_move) ==
    IF st.round = 0
    THEN proposed_move = "Cooperate"
    ELSE IF Len(st.history_2) = 0
    THEN FALSE
    ELSE proposed_move = st.history_2[1]

\* validate_tft_strategy
ValidateTftStrategy(st, proposed_move) ==
    IF st.round = 0
    THEN proposed_move = "Cooperate"
    ELSE IF Len(st.history_2) = 0
    THEN FALSE
    ELSE proposed_move = st.history_2[Len(st.history_2)]

\* validate_always_defect_strategy
ValidateAlwaysDefectStrategy(proposed_move) == proposed_move = "Defect"

\* validate_always_cooperate_strategy
ValidateAlwaysCooperateStrategy(proposed_move) == proposed_move = "Cooperate"

\* a grudge that looks at the opponent's last move only
ValidateGrudgeStrategy_LastMove(st, proposed_move) ==
    IF Len(st.history_2) > 0 /\ st.history_2[Len(st.history_2)] = "Defect"
    THEN proposed_move = "Defect"
    ELSE proposed_move = "Cooperate"

\* validate_grudge_strategy: the loop returns at the first Defect it meets
ValidateGrudgeStrategy(st, proposed_move) ==
    IF \E i \in 1..Len(st.history_2) : st.history_2[i] = "Defect"
    THEN proposed_move = "Defect"
    ELSE proposed_move = "Cooperate"

\* RoundValidator::is_finished
IsFinished(st) == st.round >= st.total_rounds

\* RoundValidator::play_round: [state, result, outcome]; the two histories
\* are pushed before the scores are added, score_1 before score_2
PlayRound(st, checks, move_1, move_2) ==
    IF st.round >= st.total_rounds
    THEN [state |-> st, result |-> GameFinished, outcome |-> NoOutcome]
    ELSE LET pay == GetPayoffs(move_1, move_2, st.payoff_matrix)
             pushed == [st EXCEPT !.history_1 = Append(@, move_1),
                                  !.history_2 = Append(@, move_2)]
             s1 == I32Add(st.score_1, pay[1])
             s2 == I32Add(st.score_2, pay[2])
         IN  IF checks /\ s1.overflow
             THEN [state |-> pushed, result |-> Panic, outcome |-> NoOutcome]
             ELSE IF checks /\ s2.overflow
             THEN [state |-> [pushed EXCEPT !.score_1 = s1.val],
                   result |-> Panic, outcome |-> NoOutcome]
             ELSE [state |-> [pushed EXCEPT !.score_1 = s1.val,
                                            !.score_2 = s2.val,
                                            !.round = @ + 1],
                   result |-> OkUnit,
                   outcome |-> [move_1 |-> move_1, move_2 |-> move_2,
                                payoff_1 |-> pay[1], payoff_2 |-> pay[2]]]

----------------------------------------------------------------------------
(* Doubles.  calculate_from_moves computes in f64.  A natural number is a  *)
(* sequence of binary digits, most significant first, and a positive       *)
(* double is [mant, exp]: 53 digits with a leading 1, standing for         *)
(* mant * 2^exp.  Every operation rounds its exact result to the nearest   *)
(* double, ties to even, as IEEE 754 does.                                 *)

Front(b) == IF b = <<>> THEN <<>> ELSE SubSeq(b, 1, Len(b) - 1)

Zeros(n) == [i \in 1..n |-> 0]

RECURSIVE BitsOfNat(_)
BitsOfNat(n) == IF n = 0 THEN <<>> ELSE Append(BitsOfNat(n \div 2), n % 2)

RECURSIVE NatOfBits(_)
NatOfBits(b) == IF b = <<>> THEN 0 ELSE (2 * NatOfBits(Front(b))) + b[Len(b)]

\* b without its leading zeros
Strip(b) ==
    IF \A i \in 1..Len(b) : b[i] = 0 THEN <<>>
    ELSE LET first == CHOOSE i \in 1..Len(b) :
                          b[i] = 1 /\ \A j \in 1..(i - 1) : b[j] = 0
         IN  SubSeq(b, first, Len(b))

\* a + b, digit by digit: position k counts from the least significant
\* digit, and a carry enters k when a lower position generates one that
\* every position in between passes on
AddBits(a, b) ==
    LET n == (IF Len(a) > Len(b) THEN Len(a) ELSE Len(b)) + 1
        x == Zeros(n - Len(a)) \o a
        y == Zeros(n - Len(b)) \o b
        At(z, k) == z[n - k]
        carry(k) == \E j \in 0..(k - 1) :
                        /\ At(x, j) + At(y, j) = 2
                        /\ \A i \in (j + 1)..(k - 1) : At(x, i) + At(y, i) >= 1
    IN  Strip([i \in 1..n |->
                  (x[i] + y[i] + (IF carry(n - i) THEN 1 ELSE 0)) % 2])

\* b + 1
IncBits(b) == AddBits(b, <<1>>)

\* a * n, for a small natural n
RECURSIVE MulBits(_, _)
MulBits(a, n) ==
    IF n = 0 THEN <<>>
    ELSE AddBits(IF n % 2 = 1 THEN a ELSE <<>>, MulBits(a, n \div 2) \o <<0>>)

F64Zero == [mant |-> <<>>, exp |-> 0]

\* the double nearest to bits * 2^exp (plus a fraction of 2^exp when sticky),
\* for bits with a leading 1
RoundToF64(bits, exp, sticky) ==
    IF Len(bits) <= 53
    THEN [mant |-> bits \o Zeros(53 - Len(bits)), exp |-> exp - (53 - Len(bits))]
    ELSE LET keep == SubSeq(bits, 1, 53)
             rest == sticky \/ \E i \in 55..Len(bits) : bits[i] = 1
             up == bits[54] = 1 /\ (rest \/ keep[53] = 1)
             m == IF up THEN IncBits(keep) ELSE keep
             e == exp + (Len(bits) - 53)
         IN  IF Len(m) = 54 THEN [mant |-> SubSeq(m, 1, 53), exp |-> e + 1]
             ELSE [mant |-> m, exp |-> e]

\* `bits as f64`, for a natural of at most 53 digits: exact
F64FromBits(bits) == IF bits = <<>> THEN F64Zero ELSE RoundToF64(bits, 0, FALSE)

\* the digits of a / b by long division: the digits found so far without
\* leading zeros, the weight of the last one, and whether a remainder is left
RECURSIVE DivBits(_, _, _, _)
DivBits(bits, rem, b, exp) ==
    IF rem = 0 \/ Len(bits) >= 55
    THEN [bits |-> bits, exp |-> exp, sticky |-> rem # 0]
    ELSE LET d == IF 2 * rem >= b THEN 1 ELSE 0
         IN  DivBits(IF bits = <<>> /\ d = 0 THEN <<>> ELSE Append(bits, d),
                     (2 * rem) - (d * b), b, exp - 1)

\* `a as f64 / b as f64` for the u32 a and b > 0
F64Div(a, b) ==
    LET q == DivBits(BitsOfNat(a \div b), a % b, b, 0)
    IN  IF q.bits = <<>> THEN F64Zero ELSE RoundToF64(q.bits, q.exp, q.sticky)

\* x * (n * 2^e), for the double constant n * 2^e
F64Mul(x, n, e) ==
    IF x.mant = <<>> THEN F64Zero ELSE RoundToF64(MulBits(x.mant, n), x.exp + e, FALSE)

\* x.round(): the nearest integer, halves away from zero
F64Round(x) ==
    IF x.mant = <<>> THEN <<>>
    ELSE IF x.exp >= 0 THEN x.mant \o Zeros(x.exp)
    ELSE IF -x.exp > 53 THEN <<>>
    ELSE LET n == 53 + x.exp
             int == SubSeq(x.mant, 1, n)
         IN  IF x.mant[n + 1] = 1 THEN IncBits(int) ELSE int

\* `x as u32` for a non-negative integral double: the cast saturates
U32FromBits(bits) ==
    IF Len(bits) > 32 THEN U32Max
    ELSE IF Len(bits) <= 16 THEN U32(0, NatOfBits(bits))
    ELSE U32(NatOfBits(SubSeq(bits, 1, Len(bits) - 16)),
             NatOfBits(SubSeq(bits, Len(bits) - 15, Len(bits))))

BitsOfU32(a) == LET h == BitsOfNat(a.hi)
                IN  IF h = <<>> THEN BitsOfNat(a.lo)
                    ELSE h \o Zeros(16 - Len(BitsOfNat(a.lo))) \o BitsOfNat(a.lo)

----------------------------------------------------------------------------
(* The reputation calculator (lib.rs) *)

\* reputation_score of calculate_from_moves, for u32 counts below 2^30:
\* ((cooperative_moves as f64 / total_moves as f64) * 100.0).round() as u32,
\* where 100.0 = 25 * 2^2
ReputationScore(total_moves, cooperative_moves) ==
    IF total_moves = 0 THEN U32(0, 50)
    ELSE U32FromBits(F64Round(F64Mul(F64Div(cooperative_moves, total_moves), 25, 2)))

\* (tier, voting_multiplier) of calculate_from_moves; the multiplier n * 2^e
\* is <<n, e>>: 1.5 = 3 * 2^-1, 1.0 = 1 * 2^0, 0.5 = 1 * 2^-1
TierOf(score) ==
    IF ~U32Gt(U32(0, 75), score) THEN <<2, <<3, -1>>>>
    ELSE IF ~U32Gt(U32(0, 50), score) THEN <<1, <<1, 0>>>>
    ELSE <<0, <<1, -1>>>>

\* voting_power of calculate_from_moves:
\* (score as f64 * voting_multiplier).round() as u32
VotingPower(score, voting_multiplier) ==
    U32FromBits(F64Round(F64Mul(F64FromBits(BitsOfU32(score)),
                                voting_multiplier[1], voting_multiplier[2])))

\* PlayerReputation::calculate_from_moves
CalculateFromMoves(address, total_moves, cooperative_moves) ==
    LET score == ReputationScore(total_moves, cooperative_moves)
        tm == TierOf(score)
    IN  [address |-> address,
         total_moves |-> total_moves,
         cooperative_moves |-> cooperative_moves,
         reputation_score |-> score,
         tier |-> tm[1],
         voting_power |-> VotingPower(score, tm[2])]

\* PlayerReputation::get_tier_label
GetTierLabel(rep) ==
    CASE rep.tier = 0 -> "Suspicious"
      [] rep.tier = 1 -> "Neutral"
      [] rep.tier = 2 -> "Trusted"
      [] OTHER -> "Unknown"

----------------------------------------------------------------------------
(* Inputs of the calls *)

Descriptions == {"Change R to 3"}
ProposalTypeInputs == {"ChangePayoff"}
TimestampInputs == {1000}
\* The callers of vote: alice and bob are the voters of test_voting; carol
\* carries the reputation and power that calculate_from_moves gives for the
\* counts (1, u32::MAX), where both casts saturate at u32::MAX.
Voters ==
    {[address |-> "alice", voter_reputation |-> U32(0, 75), voting_power |-> U32(0, 112)],
     [address |-> "bob", voter_reputation |-> U32(0, 40), voting_power |-> U32(0, 20)],
     [address |-> "carol", voter_reputation |-> U32Max, voting_power |-> U32Max]}
Addresses == {v.address : v \in Voters}
\* the ids issued so far, and the next one, which no proposal has yet
ProposalIds == 1..next_proposal_id

\* The callers of register_dependent_app: the apps of the tests of
\* governance.rs, and a second name and tier for an id already used
Apps ==
    {[app_id |-> "nft_app", app_name |-> "NFT", min_reputation_tier |-> 1],
     [app_id |-> "nft_app", app_name |-> "NFT Minting", min_reputation_tier |-> 2],
     [app_id |-> "defi_app", app_name |-> "DeFi", min_reputation_tier |-> 2]}
AppIds == {a.app_id : a \in Apps}
\* 0 = Suspicious, 1 = Neutral, 2 = Trusted
Tiers == 0..2

\* a matrix with T > R > P > S at the ends of i32
PayoffMatrixWide == [r |-> MaxI32 - 1, s |-> MinI32, t |-> MaxI32, p |-> 0]
\* a matrix with R <= P
PayoffMatrixDegenerate == [r |-> 1, s |-> 0, t |-> 3, p |-> 2]
PayoffMatrices == {PayoffMatrixDefault, PayoffMatrixWide, PayoffMatrixDegenerate}
\* the payoffs a caller of validate_move claims: those of the default matrix
ClaimedPayoffInputs == {-1, 2, 3}
\* the strategy checks of lib.rs
Strategies == {"validate_tft_strategy", "validate_always_defect_strategy",
               "validate_always_cooperate_strategy", "validate_grudge_strategy"}

\* GameState values as a caller can build them (the fields are public):
\* any round beside any history of the opponent, any four payoffs
PayoffValues == {-1, 0, 2, 3}
MatrixInputs ==
    PayoffMatrices \cup
    {[r |-> a, s |-> -1, t |-> 3, p |-> b] : a \in PayoffValues, b \in PayoffValues}
HistoryInputs ==
    {<<>>} \cup {<<a>> : a \in Move} \cup {<<a, b>> : a \in Move, b \in Move}
GameStateInputs ==
    {[round |-> n, total_rounds |-> total, payoff_matrix |-> m,
      score_1 |-> 0, score_2 |-> 0, history_1 |-> <<>>, history_2 |-> h] :
        n \in 0..MaxRounds, total \in {0, 2}, m \in MatrixInputs, h \in HistoryInputs}

\* the counts a caller of calculate_from_moves passes: every pair up to
\* MaxMoves, one count beyond it, and counts whose score or voting power
\* reaches the end of u32 when total_moves = 1
LargeCounts == {28633115, 28633116, 42949672, 42949673}
TotalMovesInputs == 0..MaxMoves
CooperativeMovesInputs == 0..(MaxMoves + 1) \cup LargeCounts

\* the input of the entry point: raw move codes, the opponent's raw move
\* codes, and the matrix as [R, T, S, P]
MoveCodes == {0, 1, 2}
SeqsUpTo(S, n) == UNION {[1..k -> S] : k \in 0..n}
PayoffInputs == {<<2, 3, -1, 0>>, <<3, 3, -1, 0>>, <<0, 3, -1, 0>>, <<2, 3, 0, 0>>}
ProveInputs ==
    {[player_address |-> "alice", moves |-> ms, opponent_moves |-> os, payoffs |-> p] :
        ms \in SeqsUpTo(MoveCodes, MaxMoveCodes), os \in {<<>>, <<1>>, <<5>>},
        p \in PayoffInputs}

----------------------------------------------------------------------------
(* The calls *)

NoCall == [op |-> "none", result |-> OkUnit, outcome |-> NoOutcome]

\* no vote call holds the ledger
NoPending == [address |-> "", proposal_id |-> 0]

\* no counts held
NoCounts == [total_moves |-> 0, cooperative_moves |-> 0]

Call(op, result, outcome) == [op |-> op, result |-> result, outcome |-> outcome]

SetGov(g) ==
    /\ next_proposal_id' = g.next_proposal_id
    /\ proposals' = g.proposals
    /\ voting_rounds' = g.voting_rounds
    /\ dependent_apps' = g.dependent_apps

\* votes recorded in the voting rounds vrs[i..]
RECURSIVE TotalVotes(_, _)
TotalVotes(vrs, i) ==
    IF i > Len(vrs) THEN 0 ELSE Len(vrs[i].votes) + TotalVotes(vrs, i + 1)

\* proposals, votes and apps recorded in the whole ledger
LedgerSize == Len(proposals) + TotalVotes(voting_rounds, 1) + Len(dependent_apps)

\* the six vote and power counters of a proposal
Counters(p) ==
    <<p.yes_votes, p.no_votes, p.abstain_votes,
      p.yes_voting_power, p.no_voting_power, p.abstain_voting_power>>

CreateProposalCall(proposal_type, description) ==
    /\ ~panicked
    /\ LedgerSize < MaxLedger
    /\ LET r == CreateProposal(Gov, proposal_type, description)
       IN  /\ SetGov(r.gov)
           /\ last' = Call("create_proposal", r.result, NoOutcome)
    /\ UNCHANGED <<procVars, overflow_checks, panicked, state, govHist, calls>>

VoteCall(proposal_id, address, vote, voter_reputation, voting_power, timestamp) ==
    /\ ~panicked
    /\ LET r == GovVote(Gov, overflow_checks, proposal_id, address, vote,
                        voter_reputation, voting_power, timestamp)
       IN  /\ r.result.kind = "Err" \/ LedgerSize < MaxLedger
           /\ SetGov(r.gov)
           /\ panicked' = (r.result.kind = "Panic")
           /\ last' = Call("vote", r.result, NoOutcome)
           /\ voted_ok' = IF r.result.kind = "Ok"
                          THEN voted_ok \cup {<<proposal_id, address>>}
                          ELSE voted_ok
    /\ UNCHANGED <<procVars, overflow_checks, state, exec_true, closed_failed, reg_times, calls>>

ExecuteProposalCall(proposal_id) ==
    /\ ~panicked
    /\ LET r == ExecuteProposal(Gov, overflow_checks, proposal_id)
           pi == FindProposal(Gov, proposal_id)
       IN  /\ SetGov(r.gov)
           /\ panicked' = (r.result.kind = "Panic")
           /\ last' = Call("execute_proposal", r.result, NoOutcome)
           /\ exec_true' = IF r.result = OkBool(TRUE)
                           THEN exec_true \cup {proposal_id}
                           ELSE exec_true
           /\ closed_failed' =
                IF /\ r.result = OkBool(FALSE)
                   /\ proposals[pi].voting_round = proposals[pi].total_voting_rounds
                THEN closed_failed \cup {<<proposal_id, Counters(proposals[pi])>>}
                ELSE closed_failed
    /\ UNCHANGED <<procVars, overflow_checks, state, voted_ok, reg_times, calls>>

AdvanceRoundCall(proposal_id) ==
    /\ ~panicked
    /\ FindProposal(Gov, proposal_id) # 0
    /\ SetGov(GovAdvanceRound(Gov, proposal_id))
    /\ last' = Call("advance_round", OkUnit, NoOutcome)
    /\ UNCHANGED <<procVars, overflow_checks, panicked, state, govHist, calls>>

\* timestamp is the host's time of the call; the function has no parameter
\* to receive it
RegisterDependentAppCall(app_id, app_name, min_reputation_tier, timestamp) ==
    /\ ~panicked
    /\ LET r == RegisterDependentApp(Gov, app_id, app_name, min_reputation_tier)
       IN  /\ r.result.kind = "Err" \/ LedgerSize < MaxLedger
           /\ SetGov(r.gov)
           /\ last' = Call("register_dependent_app", r.result, NoOutcome)
           /\ reg_times' = IF r.result.kind = "Ok"
                           THEN Append(reg_times, timestamp)
                           ELSE reg_times
    /\ UNCHANGED <<procVars, overflow_checks, panicked, state, voted_ok, exec_true,
                   closed_failed, calls>>

CheckAppEligibilityCall(app_id, user_tier) ==
    /\ ~panicked
    /\ last' = Call("check_app_eligibility",
                    CheckAppEligibility(Gov, app_id, user_tier), NoOutcome)
    /\ UNCHANGED <<procVars, overflow_checks, panicked, govVars, state, govHist, calls>>

PlayRoundCall(move_1, move_2) ==
    /\ ~panicked
    /\ calls < MaxCalls
    /\ LET r == PlayRound(state, overflow_checks, move_1, move_2)
       IN  /\ state' = r.state
           /\ panicked' = (r.result.kind = "Panic")
           /\ last' = Call("play_round", r.result, r.outcome)
    /\ calls' = calls + 1
    /\ UNCHANGED <<procVars, overflow_checks, govVars, govHist>>

\* the read-only functions of lib.rs: the call and its arguments are
\* recorded, nothing else changes
ReadOnlyCall(op, result, outcome) ==
    /\ ~panicked
    /\ last' = Call(op, result, outcome)
    /\ UNCHANGED <<procVars, overflow_checks, panicked, govVars, govHist, state, calls>>

GetPayoffsCall(move_1, move_2) ==
    LET pay == GetPayoffs(move_1, move_2, state.payoff_matrix)
    IN  ReadOnlyCall("get_payoffs", RetPair,
                     [move_1 |-> move_1, move_2 |-> move_2,
                      payoff_1 |-> pay[1], payoff_2 |-> pay[2]])

ValidateMoveCall(move_1, move_2, claimed_payoff_1, claimed_payoff_2) ==
    ReadOnlyCall("validate_move",
                 RetBool(ValidateMove(state, move_1, move_2,
                                      claimed_payoff_1, claimed_payoff_2)),
                 [move_1 |-> move_1, move_2 |-> move_2,
                  payoff_1 |-> claimed_payoff_1, payoff_2 |-> claimed_payoff_2])

ValidateStrategyCall(strategy, proposed_move) ==
    ReadOnlyCall(strategy,
                 RetBool(CASE strategy = "validate_tft_strategy" ->
                               ValidateTftStrategy(state, proposed_move)
                           [] strategy = "validate_always_defect_strategy" ->
                               ValidateAlwaysDefectStrategy(proposed_move)
                           [] strategy = "validate_always_cooperate_strategy" ->
                               ValidateAlwaysCooperateStrategy(proposed_move)
                           [] strategy = "validate_grudge_strategy" ->
                               ValidateGrudgeStrategy(state, proposed_move)),
                 [move_1 |-> proposed_move, move_2 |-> "",
                  payoff_1 |-> 0, payoff_2 |-> 0])

\* vote by a caller of a shared ledger, up to the append: the call takes
\* the exclusive borrow (&mut self) and keeps it when the tally is to run
VoteCastCall(proposal_id, address, vote, voter_reputation, voting_power, timestamp) ==
    /\ ~panicked
    /\ pending = NoPending
    /\ LET r == VoteCast(Gov, proposal_id, address, vote, voter_reputation,
                         voting_power, timestamp)
       IN  /\ r.result.kind = "Err" \/ LedgerSize < MaxLedger
           /\ SetGov(r.gov)
           /\ pending' = IF r.appended
                          THEN [address |-> address, proposal_id |-> proposal_id]
                          ELSE NoPending
           /\ last' = IF r.appended THEN last ELSE Call("vote", r.result, NoOutcome)
    /\ UNCHANGED <<overflow_checks, panicked, state, govHist, calls, prover, counts>>

\* the tally of the vote in progress; the call returns and gives the borrow back
VoteTallyCall ==
    /\ ~panicked
    /\ pending # NoPending
    /\ LET r == VoteTally(Gov, overflow_checks, pending.proposal_id)
       IN  /\ SetGov(r.gov)
           /\ panicked' = (r.result.kind = "Panic")
           /\ last' = Call("vote", r.result, NoOutcome)
           /\ voted_ok' = IF r.result.kind = "Ok"
                          THEN voted_ok \cup {<<pending.proposal_id, pending.address>>}
                          ELSE voted_ok
    /\ pending' = NoPending
    /\ UNCHANGED <<overflow_checks, state, exec_true, closed_failed, reg_times, calls,
                   prover, counts>>

\* PlayerReputation::calculate_from_moves is an associated function: the
\* call, its counts and the reputation it returns are recorded
CalculateFromMovesCall(address, total_moves, cooperative_moves) ==
    ReadOnlyCall("calculate_from_moves", OkUnit,
                 CalculateFromMoves(address, total_moves, cooperative_moves))

----------------------------------------------------------------------------
(* The entry point (main.rs): one run, from reading stdin to writing      *)
(* stdout.  A failed expect or assert! panics: the run is aborted and     *)
(* nothing has been written.                                              *)

NoInput == [player_address |-> "", moves |-> <<>>, opponent_moves |-> <<>>,
            payoffs |-> <<0, 0, 0, 0>>]

ProverNew == [pc |-> "read", input |-> NoInput, i |-> 1, cooperative_count |-> 0,
              stdout |-> <<>>]

\* the assert! on a raw move code
ValidMoveCode(move_val) == move_val = 0 \/ move_val = 1

\* the three assert!s on the raw matrix [R, T, S, P]
ValidPayoffs_NotStrict(payoffs) ==
    /\ payoffs[2] >= payoffs[1]
    /\ payoffs[1] >= payoffs[4]
    /\ payoffs[4] >= payoffs[3]

ValidPayoffs(payoffs) ==
    /\ payoffs[2] > payoffs[1]
    /\ payoffs[1] > payoffs[4]
    /\ payoffs[4] > payoffs[3]

\* ProveOutput as main builds it from the counts
ProveOutput(input, cooperative_count) ==
    LET total_moves == Len(input.moves)
        reputation == CalculateFromMoves(input.player_address, total_moves,
                                         cooperative_count)
    IN  [player_address |-> input.player_address,
         total_moves |-> total_moves,
         cooperative_moves |-> cooperative_count,
         reputation_score |-> reputation.reputation_score,
         tier |-> reputation.tier,
         voting_power |-> reputation.voting_power]

ProverFrame ==
    UNCHANGED <<overflow_checks, panicked, govVars, govHist, state, last, calls, pending,
                counts>>

\* stdin is read and deserialized; bytes that are no ProveInput abort the run
ReadInput(wellformed, input) ==
    /\ prover.pc = "read"
    /\ prover' = IF wellformed THEN [prover EXCEPT !.pc = "moves", !.input = input]
                  ELSE [prover EXCEPT !.pc = "aborted"]
    /\ ProverFrame

\* one iteration of the loop over input.moves, or its end
CheckMove ==
    /\ prover.pc = "moves"
    /\ prover' =
         IF prover.i > Len(prover.input.moves) THEN [prover EXCEPT !.pc = "payoffs"]
         ELSE LET move_val == prover.input.moves[prover.i]
                  count == prover.cooperative_count + (IF move_val = 0 THEN 1 ELSE 0)
              IN  IF ValidMoveCode(move_val)
                  THEN [prover EXCEPT !.cooperative_count = count, !.i = prover.i + 1]
                  ELSE [prover EXCEPT !.cooperative_count = count, !.pc = "aborted"]
    /\ ProverFrame

CheckPayoffs ==
    /\ prover.pc = "payoffs"
    /\ prover' = [prover EXCEPT !.pc = IF ValidPayoffs(prover.input.payoffs)
                                        THEN "calculate" ELSE "aborted"]
    /\ ProverFrame

\* the reputation is calculated and the output written to stdout
WriteOutput ==
    /\ prover.pc = "calculate"
    /\ prover' = [prover EXCEPT
                     !.pc = "done",
                     !.stdout = <<ProveOutput(prover.input, prover.cooperative_count)>>]
    /\ ProverFrame

----------------------------------------------------------------------------
(* Specifications *)

Init ==
    /\ overflow_checks \in BOOLEAN
    /\ panicked = FALSE
    /\ next_proposal_id = GovernanceStateNew.next_proposal_id
    /\ proposals = GovernanceStateNew.proposals
    /\ voting_rounds = GovernanceStateNew.voting_rounds
    /\ dependent_apps = GovernanceStateNew.dependent_apps
    /\ state \in {GameStateNewWithPayoffs(n, m) : n \in 0..MaxRounds, m \in PayoffMatrices}
    /\ last = NoCall
    /\ voted_ok = {}
    /\ exec_true = {}
    /\ closed_failed = {}
    /\ reg_times = <<>>
    /\ calls = 0
    /\ prover = ProverNew
    /\ pending = NoPending
    /\ counts = NoCounts

CreateStep == \E t \in ProposalTypeInputs, d \in Descriptions : CreateProposalCall(t, d)

VoteStep ==
    \E id \in ProposalIds, who \in Voters, v \in Vote, t \in TimestampInputs :
        VoteCall(id, who.address, v, who.voter_reputation, who.voting_power, t)

ExecuteStep == \E id \in ProposalIds : ExecuteProposalCall(id)

AdvanceStep == \E id \in ProposalIds : AdvanceRoundCall(id)

RegisterStep ==
    \E a \in Apps, t \in TimestampInputs :
        RegisterDependentAppCall(a.app_id, a.app_name, a.min_reputation_tier, t)

EligibilityStep == \E id \in AppIds, tier \in Tiers : CheckAppEligibilityCall(id, tier)

PlayStep == \E m1 \in Move, m2 \in Move : PlayRoundCall(m1, m2)

NextGov == CreateStep \/ VoteStep \/ ExecuteStep \/ AdvanceStep

NextRegistry == RegisterStep \/ EligibilityStep \/ CreateStep \/ VoteStep \/ ExecuteStep

GetPayoffsStep == \E m1 \in Move, m2 \in Move : GetPayoffsCall(m1, m2)

ValidateMoveStep ==
    \E m1 \in Move, m2 \in Move, c1 \in ClaimedPayoffInputs, c2 \in ClaimedPayoffInputs :
        ValidateMoveCall(m1, m2, c1, c2)

ValidateStrategyStep == \E f \in Strategies, m \in Move : ValidateStrategyCall(f, m)

NextValidate == GetPayoffsStep \/ ValidateMoveStep \/ ValidateStrategyStep

NextGame == PlayStep \/ NextValidate

Next == NextGov \/ NextRegistry \/ NextGame

\* the ledger alone, beside a game that is not played
InitGov == Init /\ state = GameStateNew(0)

SpecGov == InitGov /\ [][NextGov]_vars

\* the registry of dependent apps, beside a ledger whose proposals are voted
\* on and executed
SpecRegistry == InitGov /\ [][NextRegistry]_vars

\* one game, beside an unused ledger
SpecGame == Init /\ [][NextGame]_vars

VoteCastStep ==
    \E id \in ProposalIds, who \in Voters, v \in Vote, t \in TimestampInputs :
        VoteCastCall(id, who.address, v, who.voter_reputation, who.voting_power, t)

\* The operations take &mut self: while a vote holds the borrow no other
\* operation on the ledger starts
NextShared ==
    \/ VoteCastStep
    \/ VoteTallyCall
    \/ (pending = NoPending /\ CreateStep)
    \/ (pending = NoPending /\ ExecuteStep)
    \/ (pending = NoPending /\ AdvanceStep)
    \/ (pending = NoPending /\ RegisterStep)

\* several callers of one ledger, their calls interleaved
SpecShared == InitGov /\ [][NextShared]_vars

CalculateStep ==
    CalculateFromMovesCall("alice", counts.total_moves, counts.cooperative_moves)

NextReputation == CalculateStep

\* the reputation calculator applied to the counts a caller holds
InitReputation ==
    /\ overflow_checks \in BOOLEAN
    /\ panicked = FALSE
    /\ next_proposal_id = GovernanceStateNew.next_proposal_id
    /\ proposals = GovernanceStateNew.proposals
    /\ voting_rounds = GovernanceStateNew.voting_rounds
    /\ dependent_apps = GovernanceStateNew.dependent_apps
    /\ state = GameStateNew(0)
    /\ last = NoCall
    /\ voted_ok = {}
    /\ exec_true = {}
    /\ closed_failed = {}
    /\ reg_times = <<>>
    /\ calls = 0
    /\ prover = ProverNew
    /\ pending = NoPending
    /\ counts \in [total_moves : TotalMovesInputs, cooperative_moves : CooperativeMovesInputs]

SpecReputation == InitReputation /\ [][NextReputation]_vars

ReadStep == \E w \in BOOLEAN, input \in ProveInputs : ReadInput(w, input)

NextProver == ReadStep \/ CheckMove \/ CheckPayoffs \/ WriteOutput

\* one run of the entry point
SpecProver == InitGov /\ [][NextProver]_vars

\* the read-only functions applied to game states built by the caller
InitValidate ==
    /\ overflow_checks \in BOOLEAN
    /\ panicked = FALSE
    /\ next_proposal_id = GovernanceStateNew.next_proposal_id
    /\ proposals = GovernanceStateNew.proposals
    /\ voting_rounds = GovernanceStateNew.voting_rounds
    /\ dependent_apps = GovernanceStateNew.dependent_apps
    /\ state \in GameStateInputs
    /\ last = NoCall
    /\ voted_ok = {}
    /\ exec_true = {}
    /\ closed_failed = {}
    /\ reg_times = <<>>
    /\ calls = 0
    /\ prover = ProverNew
    /\ pending = NoPending
    /\ counts = NoCounts

SpecValidate == InitValidate /\ [][NextValidate]_vars

Spec == Init /\ [][Next]_vars

----------------------------------------------------------------------------
(* Exact arithmetic for the statements: a natural number as [hi, lo] with  *)
(* lo < 2^16 and hi unbounded, standing for hi * 2^16 + lo                 *)

ExactAdd(a, b) ==
    LET lo == a.lo + b.lo
    IN  [hi |-> a.hi + b.hi + (lo \div Limb), lo |-> lo % Limb]

\* the exact sum of voting_power over votes[i..]
RECURSIVE ExactPower(_, _)
ExactPower(votes, i) ==
    IF i > Len(votes) THEN U32Zero
    ELSE ExactAdd(votes[i].voting_power, ExactPower(votes, i + 1))

\* arguments of vote the statements range over
ClaimPowers == {U32Zero, U32(0, 112), U32Max}
ClaimReputations == {U32(0, 40), U32(0, 75)}
ClaimTimestamps == {1000, 1001}
ClaimIds == 0..next_proposal_id

\* arguments of register_dependent_app and check_app_eligibility the
\* statements range over; a tier is any u8
ClaimAppIds == AppIds \cup {"unknown_app"}
ClaimAppNames == {"NFT", "NFT Minting", ""}
ClaimTiers == {0, 1, 2, 3, 255}

\* payoffs the statements range over: those of the models' matrices and
\* the four of the matrix of the game
ClaimPayoffs ==
    PayoffValues \cup {state.payoff_matrix.r, state.payoff_matrix.s,
                       state.payoff_matrix.t, state.payoff_matrix.p}

\* matrices the statements range over: any four payoffs from -2..3, the
\* matrices of the model, and the matrix of the game
ClaimMatrices ==
    [r : -2..3, s : -2..3, t : -2..3, p : -2..3]
        \cup PayoffMatrices \cup {state.payoff_matrix}

\* a proposal with this id is in the ledger
Exists(id) == \E i \in 1..Len(proposals) : proposals[i].id = id
\* the proposal and the voting round with this id
ProposalOf(id) == proposals[CHOOSE i \in 1..Len(proposals) : proposals[i].id = id]
RoundOf(id) == voting_rounds[CHOOSE i \in 1..Len(voting_rounds) : voting_rounds[i].proposal_id = id]

----------------------------------------------------------------------------
(* C1: tally invariant.  After any sequence of create_proposal, vote,      *)
(* advance_round and execute_proposal calls that returned, every           *)
(* proposal's three vote counts add up to the number of votes recorded in  *)
(* its voting round, and its three power counters add up to the exact sum  *)
(* of voting_power over those votes.                                       *)

C1_TallyInvariant ==
    (~panicked) =>
        \A i \in 1..Len(proposals) :
            LET p == proposals[i]
                votes == voting_rounds[i].votes
            IN  /\ p.yes_votes + p.no_votes + p.abstain_votes = Len(votes)
                /\ ExactAdd(ExactAdd(p.yes_voting_power, p.no_voting_power),
                            p.abstain_voting_power)
                   = ExactPower(votes, 1)

----------------------------------------------------------------------------
(* C2: no second vote.  As claimed: once an address has voted successfully *)
(* on a proposal, every later vote call with the same (address,            *)
(* proposal_id) fails with AlreadyVoted, whatever its other arguments and  *)
(* whatever ran in between.                                                *)

C2_RepeatVoteAlreadyVoted ==
    (~panicked) =>
        \A pair \in voted_ok :
            \A v \in Vote, r \in ClaimReputations, w \in ClaimPowers, t \in ClaimTimestamps :
                GovVote(Gov, overflow_checks, pair[1], pair[2], v, r, w, t).result
                    = AlreadyVoted(pair[2])

(* C2 as amended: such a call always fails and changes nothing; it fails   *)
(* with AlreadyVoted while the proposal is un-executed with voting_round < *)
(* total_voting_rounds, and with VotingClosed once it is executed or       *)
(* voting_round has reached total_voting_rounds.                           *)

C2_RepeatVoteFails ==
    (~panicked) =>
        \A pair \in voted_ok :
            \A v \in Vote, r \in ClaimReputations, w \in ClaimPowers, t \in ClaimTimestamps :
                LET res == GovVote(Gov, overflow_checks, pair[1], pair[2], v, r, w, t)
                    p == ProposalOf(pair[1])
                IN  /\ Exists(pair[1])
                    /\ res.gov = Gov
                    /\ res.result =
                         IF p.executed \/ p.voting_round >= p.total_voting_rounds
                         THEN VotingClosed
                         ELSE AlreadyVoted(pair[2])

\* an address that had voted on the only proposal voted again and was
\* rejected with AlreadyVoted
C2_Witness ==
    /\ ~panicked
    /\ last.op = "vote"
    /\ Len(proposals) = 1
    /\ \E pair \in voted_ok : last.result = AlreadyVoted(pair[2])

----------------------------------------------------------------------------
(* C3: executed is terminal.  Once execute_proposal(id) has returned true, *)
(* the proposal's executed flag is true in every later state and every     *)
(* later execute_proposal(id) fails with AlreadyExecuted, changing nothing.*)

C3_ExecutedIsTerminal ==
    \A id \in exec_true :
        /\ Exists(id)
        /\ ProposalOf(id).executed
        /\ ExecuteProposal(Gov, overflow_checks, id)
             = [gov |-> Gov, result |-> AlreadyExecuted]

\* a second execute_proposal on an executed proposal was rejected
C3_Witness ==
    /\ exec_true # {}
    /\ last.op = "execute_proposal"
    /\ last.result = AlreadyExecuted

----------------------------------------------------------------------------
(* C4: a game of N rounds.  For a game created with total_rounds = N, the  *)
(* first N play_round calls all succeed, is_finished() is false before the *)
(* N-th call has completed and true from then on, and the (N+1)-th and     *)
(* every later call fails with GameFinished.                               *)

C4_PlayRoundUntilFinished ==
    /\ (last.op = "play_round" /\ calls <= state.total_rounds)
          => last.result = OkUnit
    /\ (last.op = "play_round" /\ calls > state.total_rounds)
          => last.result = GameFinished
    /\ IsFinished(state) <=> (calls >= state.total_rounds)

----------------------------------------------------------------------------
(* C5: outcome of vote.  vote fails with ProposalNotFound when no proposal *)
(* has the id; otherwise with VotingClosed when the proposal is executed   *)
(* or voting_round >= total_voting_rounds; otherwise with AlreadyVoted     *)
(* when the address has a recorded vote on it; otherwise it succeeds and   *)
(* appends exactly one PlayerVote carrying the supplied choice,            *)
(* reputation, voting power and timestamp.                                 *)

C5_VoteOutcome ==
    (~panicked) =>
        \A id \in ClaimIds, a \in Addresses, v \in Vote, r \in ClaimReputations,
           w \in ClaimPowers, t \in ClaimTimestamps :
            LET res == GovVote(Gov, overflow_checks, id, a, v, r, w, t)
            IN  IF ~Exists(id)
                THEN res = [gov |-> Gov, result |-> ProposalNotFound]
                ELSE IF \/ ProposalOf(id).executed
                        \/ ProposalOf(id).voting_round >= ProposalOf(id).total_voting_rounds
                THEN res = [gov |-> Gov, result |-> VotingClosed]
                ELSE IF \E k \in 1..Len(RoundOf(id).votes) : RoundOf(id).votes[k].address = a
                THEN res = [gov |-> Gov, result |-> AlreadyVoted(a)]
                ELSE /\ res.result = OkUnit
                     /\ \A i \in 1..Len(voting_rounds) :
                          res.gov.voting_rounds[i].votes =
                            IF voting_rounds[i].proposal_id = id
                            THEN Append(voting_rounds[i].votes,
                                        [address |-> a, proposal_id |-> id, vote |-> v,
                                         voter_reputation |-> r, voting_power |-> w,
                                         timestamp |-> t])
                            ELSE voting_rounds[i].votes

----------------------------------------------------------------------------
(* C6: lifecycle.  As claimed: a proposal becomes Executed only from a     *)
(* state in which its voting has closed (voting_round =                    *)
(* total_voting_rounds), never directly from Open.                         *)

C6_ExecutedOnlyAfterClose ==
    [][\A i \in 1..Len(proposals) :
          ((~proposals[i].executed) /\ proposals'[i].executed)
             => proposals[i].voting_round = proposals[i].total_voting_rounds]_vars

(* C6 as amended: a proposal becomes Executed only by an execute_proposal  *)
(* call that returns true, made while it is un-executed and has_passed     *)
(* holds of its counters; the call does not consult voting_round, so this  *)
(* happens from Open as well as from VotingClosed.                         *)

C6_ExecutedOnlyByPassingExecute ==
    [][\A i \in 1..Len(proposals) :
          ((~proposals[i].executed) /\ proposals'[i].executed)
             => /\ last'.op = "execute_proposal"
                /\ last'.result = OkBool(TRUE)
                /\ HasPassed(proposals[i], overflow_checks).val
                /\ proposals' = [proposals EXCEPT ![i].executed = TRUE]]_vars

\* a proposal was executed while its voting was still open
C6_Witness ==
    /\ last.op = "execute_proposal"
    /\ last.result = OkBool(TRUE)
    /\ \E i \in 1..Len(proposals) :
        /\ proposals[i].executed
        /\ proposals[i].voting_round < proposals[i].total_voting_rounds

----------------------------------------------------------------------------
(* C7: Closed-Failed is terminal.  Once execute_proposal has returned      *)
(* false for a proposal whose voting had closed (voting_round =            *)
(* total_voting_rounds), its six counters never change again, it never     *)
(* becomes Executed, and every later execute_proposal on it returns false. *)

C7_ClosedFailedIsTerminal ==
    \A cf \in closed_failed :
        /\ Exists(cf[1])
        /\ Counters(ProposalOf(cf[1])) = cf[2]
        /\ ~ProposalOf(cf[1]).executed
        /\ ExecuteProposal(Gov, overflow_checks, cf[1])
             = [gov |-> Gov, result |-> OkBool(FALSE)]

\* execute_proposal has returned false on the only proposal, which is
\* closed and has a vote
C7_Witness ==
    /\ last.op = "execute_proposal"
    /\ last.result = OkBool(FALSE)
    /\ Len(proposals) = 1
    /\ <<1, Counters(proposals[1])>> \in closed_failed
    /\ Len(voting_rounds[1].votes) > 0

----------------------------------------------------------------------------
(* C8: execute_proposal.  It fails with ProposalNotFound for an unknown    *)
(* id; on an existing un-executed proposal it returns has_passed of the    *)
(* current counters and sets executed exactly when that is true, changing  *)
(* nothing else; a false result sets no terminal flag, so the same         *)
(* proposal returns true once further votes make has_passed true.          *)

C8_ExecuteReturnsHasPassed ==
    \A id \in ClaimIds :
        LET res == ExecuteProposal(Gov, overflow_checks, id)
        IN  IF ~Exists(id)
            THEN res = [gov |-> Gov, result |-> ProposalNotFound]
            ELSE (~ProposalOf(id).executed) =>
                    LET passed == HasPassed(ProposalOf(id), overflow_checks)
                    IN  IF passed.panic
                        THEN res.result = Panic
                        ELSE /\ res.result = OkBool(passed.val)
                             /\ res.gov.next_proposal_id = next_proposal_id
                             /\ res.gov.voting_rounds = voting_rounds
                             /\ res.gov.dependent_apps = dependent_apps
                             /\ Len(res.gov.proposals) = Len(proposals)
                             /\ \A i \in 1..Len(proposals) :
                                  res.gov.proposals[i] =
                                    IF proposals[i].id = id
                                    THEN [proposals[i] EXCEPT !.executed = passed.val]
                                    ELSE proposals[i]

\* execute_proposal has just returned false on the only proposal, which has
\* a vote, is left un-executed and open, and returns true after one more
\* successful vote
C8_Witness ==
    /\ ~panicked
    /\ last.op = "execute_proposal"
    /\ last.result = OkBool(FALSE)
    /\ Len(proposals) = 1
    /\ Len(voting_rounds[1].votes) = 1
    /\ ~proposals[1].executed
    /\ \E who \in Voters, v \in Vote :
         LET voted == GovVote(Gov, overflow_checks, 1, who.address, v,
                              who.voter_reputation, who.voting_power, 1001)
         IN  /\ voted.result = OkUnit
             /\ ExecuteProposal(voted.gov, overflow_checks, 1).result = OkBool(TRUE)

----------------------------------------------------------------------------
(* C9: has_passed.  It returns false when yes + no + abstain voting power  *)
(* is 0, and otherwise true exactly when yes_voting_power > (yes + no +    *)
(* abstain voting power) / 2 in integer division, that is exactly when yes *)
(* power strictly exceeds no power plus abstain power.                     *)

C9_HasPassedIsMajority ==
    (~panicked) =>
        \A i \in 1..Len(proposals) :
            LET p == proposals[i]
                passed == HasPassed(p, overflow_checks)
                rest == ExactAdd(p.no_voting_power, p.abstain_voting_power)
                total == ExactAdd(p.yes_voting_power, rest)
            IN  /\ ~passed.panic
                /\ passed.val = (total # U32Zero
                                 /\ U32Gt(p.yes_voting_power, U32Half(total)))
                /\ passed.val = U32Gt(p.yes_voting_power, rest)

----------------------------------------------------------------------------
(* C10: create_proposal.  It never fails and returns the ids 1, 2, 3, ...  *)
(* in call order, never reusing one whatever happened to earlier           *)
(* proposals; each call adds one proposal with zero counters, voting_round *)
(* 0, total_voting_rounds 3 and executed false, and one empty voting round *)
(* with the same id, so that proposals and voting rounds correspond one to *)
(* one by id.                                                              *)

C10_CreateProposalIds ==
    /\ Len(voting_rounds) = Len(proposals)
    /\ next_proposal_id = Len(proposals) + 1
    /\ \A i \in 1..Len(proposals) :
         /\ proposals[i].id = i
         /\ voting_rounds[i].proposal_id = i
    /\ last.op = "create_proposal" => last.result = OkId(Len(proposals))
    /\ \A ty \in ProposalType, d \in Descriptions :
         LET res == CreateProposal(Gov, ty, d)
         IN  /\ res.result = OkId(Len(proposals) + 1)
             /\ res.gov.next_proposal_id = Len(proposals) + 2
             /\ res.gov.dependent_apps = dependent_apps
             /\ res.gov.proposals =
                  Append(proposals,
                         [id |-> Len(proposals) + 1, proposal_type |-> ty,
                          description |-> d, voting_round |-> 0,
                          total_voting_rounds |-> 3,
                          yes_votes |-> 0, no_votes |-> 0, abstain_votes |-> 0,
                          yes_voting_power |-> U32Zero, no_voting_power |-> U32Zero,
                          abstain_voting_power |-> U32Zero, executed |-> FALSE])
             /\ res.gov.voting_rounds =
                  Append(voting_rounds,
                         [proposal_id |-> Len(proposals) + 1, votes |-> <<>>,
                          voted_addresses |-> <<>>])

\* the second proposal was created after the first had been voted on and
\* executed
C10_Witness ==
    /\ last.op = "create_proposal"
    /\ last.result = OkId(2)
    /\ Len(proposals) = 2
    /\ proposals[1].executed
    /\ proposals[2].id = 2

----------------------------------------------------------------------------
(* C11: advance_round.  It increases voting_round by exactly 1 while       *)
(* voting_round < total_voting_rounds and changes nothing once             *)
(* voting_round = total_voting_rounds; so 0 <= voting_round <=             *)
(* total_voting_rounds in every reachable state, voting_round never        *)
(* decreases and moves only by the +1 of an advance_round, and once it has *)
(* reached total_voting_rounds (after that many advances) every vote on    *)
(* the proposal fails with VotingClosed and changes nothing.               *)

C11_AdvanceRoundCapped ==
    /\ [](\A i \in 1..Len(proposals) :
            LET p == proposals[i]
                advanced == GovAdvanceRound(Gov, p.id)
            IN  /\ p.voting_round \in 0..p.total_voting_rounds
                /\ advanced =
                     IF p.voting_round < p.total_voting_rounds
                     THEN [Gov EXCEPT !.proposals[i].voting_round = p.voting_round + 1]
                     ELSE Gov
                /\ p.voting_round = p.total_voting_rounds =>
                     \A a \in Addresses, v \in Vote, r \in ClaimReputations,
                        w \in ClaimPowers, t \in ClaimTimestamps :
                         GovVote(Gov, overflow_checks, p.id, a, v, r, w, t)
                            = [gov |-> Gov, result |-> VotingClosed])
    /\ [][\A i \in 1..Len(proposals) :
            /\ proposals'[i].voting_round >= proposals[i].voting_round
            /\ proposals'[i].voting_round # proposals[i].voting_round =>
                 /\ last'.op = "advance_round"
                 /\ proposals'[i].voting_round = proposals[i].voting_round + 1]_vars

\* the only proposal, not executed, has been advanced to its last round and
\* a vote on it has just been rejected with VotingClosed
C11_Witness ==
    /\ last.op = "vote"
    /\ last.result = VotingClosed
    /\ Len(proposals) = 1
    /\ ~proposals[1].executed
    /\ proposals[1].voting_round = proposals[1].total_voting_rounds

----------------------------------------------------------------------------
(* C12: frame of the counters.  The six vote and power counters of a       *)
(* proposal change only in a vote call on that same proposal that passed   *)
(* its three tests and logged its vote (it returns Ok, or dies in the      *)
(* retally in a build with overflow checks).  create_proposal,             *)
(* advance_round, execute_proposal, register_dependent_app, votes that     *)
(* fail and votes on other proposals leave them unchanged, whatever their  *)
(* arguments.                                                              *)

----------------------------------------------------------------------------
(* C13: no second registration.  register_dependent_app with an app_id     *)
(* already in the registry fails with DuplicateApp and changes nothing,    *)
(* whatever the name and tier supplied and whatever ran in between (no     *)
(* other operation writes the registry); so the app ids of the registry    *)
(* are pairwise distinct in every reachable state, and the registry only   *)
(* grows by a successful registration appended at its end, which keeps the *)
(* entries in registration order.                                          *)

C13_DuplicateAppRejected ==
    /\ [](/\ \A i, j \in 1..Len(dependent_apps) :
                i # j => dependent_apps[i].app_id # dependent_apps[j].app_id
          /\ \A i \in 1..Len(dependent_apps), n \in ClaimAppNames, t \in ClaimTiers :
                RegisterDependentApp(Gov, dependent_apps[i].app_id, n, t)
                    = [gov |-> Gov, result |-> DuplicateApp(dependent_apps[i].app_id)]
          /\ \A id \in ClaimIds :
                GovAdvanceRound(Gov, id).dependent_apps = dependent_apps)
    /\ [][\/ dependent_apps' = dependent_apps
          \/ /\ last'.op = "register_dependent_app"
             /\ last'.result = OkUnit
             /\ Len(dependent_apps') = Len(dependent_apps) + 1
             /\ SubSeq(dependent_apps', 1, Len(dependent_apps)) = dependent_apps
             /\ \A i \in 1..Len(dependent_apps) :
                  dependent_apps[i].app_id
                     # dependent_apps'[Len(dependent_apps')].app_id]_vars

\* with two apps registered and a proposal created, a registration under
\* the id of the first app was rejected
C13_Witness ==
    /\ last.op = "register_dependent_app"
    /\ last.result = DuplicateApp("nft_app")
    /\ Len(dependent_apps) = 2
    /\ dependent_apps[1].app_id = "nft_app"
    /\ dependent_apps[2].app_id = "defi_app"
    /\ Len(proposals) = 1

----------------------------------------------------------------------------
(* C14: registration time.  Every entry of the registry carries in         *)
(* registered_at the timestamp the host supplied for the registration that *)
(* created it; the ledger never chooses the value itself.                  *)

C14_RegisteredAtSupplied ==
    /\ Len(reg_times) = Len(dependent_apps)
    /\ \A i \in 1..Len(dependent_apps) :
         dependent_apps[i].registered_at = reg_times[i]

----------------------------------------------------------------------------
(* C15: eligibility.  check_app_eligibility fails with AppNotFound for an  *)
(* app id that is not in the registry; for a registered app it returns     *)
(* true exactly when user_tier >= the app's min_reputation_tier, so that   *)
(* eligibility at a tier implies eligibility at every higher tier; and the *)
(* call changes nothing in the ledger.                                     *)

C15_Eligibility ==
    /\ [](\A id \in ClaimAppIds, tier \in ClaimTiers :
            LET res == CheckAppEligibility(Gov, id, tier)
                registered == {i \in 1..Len(dependent_apps) : dependent_apps[i].app_id = id}
            IN  /\ registered = {} => res = AppNotFound(id)
                /\ \A i \in registered :
                     /\ res.kind = "Ok"
                     /\ res.flag <=> tier >= dependent_apps[i].min_reputation_tier
                /\ res = OkBool(TRUE) =>
                     \A higher \in ClaimTiers :
                         higher > tier => CheckAppEligibility(Gov, id, higher) = OkBool(TRUE))
    /\ [][last'.op = "check_app_eligibility" =>
            UNCHANGED <<govVars, govHist, state, panicked, overflow_checks, calls>>]_vars

\* the only registered app requires tier 2 and a caller has just been found
\* eligible for it
C15_Witness ==
    /\ last.op = "check_app_eligibility"
    /\ last.result = OkBool(TRUE)
    /\ Len(dependent_apps) = 1
    /\ dependent_apps[1].min_reputation_tier = 2

----------------------------------------------------------------------------
(* C16: effect of play_round.  Whenever round < total_rounds, whatever the *)
(* payoff matrix (also one with R <= P, which validate_move rejects),      *)
(* play_round(m1, m2) succeeds: it appends m1 to history_1 and m2 to       *)
(* history_2, adds payoffs(m1, m2, matrix) to score_1 and score_2 (the     *)
(* new score is the sum, which I32Add gives when it reports no overflow),  *)
(* increments round by exactly 1, leaves total_rounds and the matrix       *)
(* unchanged and returns those moves and payoffs.                          *)

C16_PlayRoundEffect ==
    ((~panicked) /\ state.round < state.total_rounds) =>
        \A m1 \in Move, m2 \in Move :
            LET res == PlayRound(state, overflow_checks, m1, m2)
                pay == GetPayoffs(m1, m2, state.payoff_matrix)
                sum_1 == I32Add(state.score_1, pay[1])
                sum_2 == I32Add(state.score_2, pay[2])
            IN  /\ res.result = OkUnit
                /\ res.outcome = [move_1 |-> m1, move_2 |-> m2,
                                  payoff_1 |-> pay[1], payoff_2 |-> pay[2]]
                /\ res.state.history_1 = Append(state.history_1, m1)
                /\ res.state.history_2 = Append(state.history_2, m2)
                /\ (~sum_1.overflow) /\ res.state.score_1 = sum_1.val
                /\ (~sum_2.overflow) /\ res.state.score_2 = sum_2.val
                /\ res.state.round = state.round + 1
                /\ res.state.total_rounds = state.total_rounds
                /\ res.state.payoff_matrix = state.payoff_matrix

----------------------------------------------------------------------------
(* C17: validate_move.  It returns true exactly when round < total_rounds, *)
(* the claimed payoffs are those of the two moves under the matrix of the  *)
(* state (R, R for both cooperating; S, T and T, S for one defecting; P, P *)
(* for both defecting), and R > P; false otherwise; and the call leaves    *)
(* the game state as it was.                                               *)

C17_ValidateMove ==
    /\ [](\A m1 \in Move, m2 \in Move, c1 \in ClaimPayoffs, c2 \in ClaimPayoffs :
            LET m == state.payoff_matrix
                due == IF m1 = "Cooperate"
                       THEN (IF m2 = "Cooperate" THEN <<m.r, m.r>> ELSE <<m.s, m.t>>)
                       ELSE (IF m2 = "Cooperate" THEN <<m.t, m.s>> ELSE <<m.p, m.p>>)
            IN  ValidateMove(state, m1, m2, c1, c2)
                  <=> /\ state.round < state.total_rounds
                      /\ <<c1, c2>> = due
                      /\ m.r > m.p)
    /\ [][last'.op = "validate_move" => state' = state]_vars

\* validate_move has accepted a Cooperate answered by a Defect with the
\* payoffs S and T, in a state built with a round beside an empty history
C17_Witness ==
    /\ last.op = "validate_move"
    /\ last.result = RetBool(TRUE)
    /\ last.outcome = [move_1 |-> "Cooperate", move_2 |-> "Defect",
                       payoff_1 |-> state.payoff_matrix.s,
                       payoff_2 |-> state.payoff_matrix.t]
    /\ state.round = 1
    /\ state.history_2 = <<>>

----------------------------------------------------------------------------
(* C18: Grudge.  Over a game played through play_round, the Grudge check   *)
(* accepts Cooperate and rejects Defect while the opponent's history holds *)
(* no Defect; once a play_round has recorded a Defect of the opponent it   *)
(* accepts Defect and rejects Cooperate, and goes on doing so in every     *)
(* later state, whatever the opponent plays afterwards.                    *)

C18_Grudge ==
    /\ [](IF \E i \in 1..Len(state.history_2) : state.history_2[i] = "Defect"
          THEN /\ ValidateGrudgeStrategy(state, "Defect")
               /\ ~ValidateGrudgeStrategy(state, "Cooperate")
          ELSE /\ ValidateGrudgeStrategy(state, "Cooperate")
               /\ ~ValidateGrudgeStrategy(state, "Defect"))
    /\ [][/\ (last'.op = "play_round" /\ last'.result = OkUnit
                /\ last'.outcome.move_2 = "Defect")
              => (/\ ValidateGrudgeStrategy(state', "Defect")
                  /\ ~ValidateGrudgeStrategy(state', "Cooperate"))
          /\ (ValidateGrudgeStrategy(state, "Defect")
                \/ ~ValidateGrudgeStrategy(state, "Cooperate"))
              => (/\ ValidateGrudgeStrategy(state', "Defect")
                  /\ ~ValidateGrudgeStrategy(state', "Cooperate"))]_vars

\* the opponent defected, then cooperated again, and the Grudge check has
\* just accepted a Defect
C18_Witness ==
    /\ last.op = "validate_grudge_strategy"
    /\ last.result = RetBool(TRUE)
    /\ last.outcome.move_1 = "Defect"
    /\ state.round = 2
    /\ state.history_2 = <<"Defect", "Cooperate">>

----------------------------------------------------------------------------
(* C19: TitForTat.  At round 0 the check accepts Cooperate and rejects     *)
(* Defect; at round >= 1 it accepts exactly the opponent's most recently   *)
(* recorded move, the one of the last play_round; no sequence of           *)
(* play_round calls leads to a state with round >= 1 and an empty opponent *)
(* history, and on such a state (the state of the game with its round set  *)
(* to n >= 1 and its opponent history emptied) the check rejects both      *)
(* moves.                                                                  *)

C19_TitForTat ==
    /\ [](/\ state.round = 0 =>
                /\ ValidateTftStrategy(state, "Cooperate")
                /\ ~ValidateTftStrategy(state, "Defect")
          /\ state.round >= 1 =>
                /\ Len(state.history_2) >= 1
                /\ \A mv \in Move :
                     ValidateTftStrategy(state, mv)
                        <=> mv = state.history_2[Len(state.history_2)]
          /\ \A n \in 1..(MaxRounds + 1), mv \in Move :
                ~ValidateTftStrategy([state EXCEPT !.round = n, !.history_2 = <<>>], mv))
    /\ [][(last'.op = "play_round" /\ last'.result = OkUnit) =>
            \A mv \in Move :
                ValidateTftStrategy(state', mv) <=> mv = last'.outcome.move_2]_vars

\* after the opponent cooperated and then defected, the check has just
\* accepted a Defect
C19_Witness ==
    /\ last.op = "validate_tft_strategy"
    /\ last.result = RetBool(TRUE)
    /\ last.outcome.move_1 = "Defect"
    /\ state.round = 2
    /\ state.history_2 = <<"Cooperate", "Defect">>

----------------------------------------------------------------------------
(* C20: payoffs.  For every matrix with T > R > P > S, get_payoffs gives   *)
(* (R, R) for (Cooperate, Cooperate), (S, T) for (Cooperate, Defect),      *)
(* (T, S) for (Defect, Cooperate) and (P, P) for (Defect, Defect); and     *)
(* swapping the two moves swaps the two payoffs.                           *)

C20_Payoffs ==
    /\ \A m \in ClaimMatrices :
         (m.t > m.r /\ m.r > m.p /\ m.p > m.s) =>
            /\ GetPayoffs("Cooperate", "Cooperate", m) = <<m.r, m.r>>
            /\ GetPayoffs("Cooperate", "Defect", m) = <<m.s, m.t>>
            /\ GetPayoffs("Defect", "Cooperate", m) = <<m.t, m.s>>
            /\ GetPayoffs("Defect", "Defect", m) = <<m.p, m.p>>
            /\ \A m1 \in Move, m2 \in Move :
                 GetPayoffs(m2, m1, m)
                    = <<GetPayoffs(m1, m2, m)[2], GetPayoffs(m1, m2, m)[1]>>
    /\ (/\ last.op = "get_payoffs"
        /\ last.outcome.move_1 = "Cooperate"
        /\ last.outcome.move_2 = "Defect")
         => /\ last.outcome.payoff_1 = state.payoff_matrix.s
            /\ last.outcome.payoff_2 = state.payoff_matrix.t

\* get_payoffs has just paid S and T for a Cooperate answered by a Defect,
\* under a matrix with T > R > P > S other than the default one
C20_Witness ==
    /\ last.op = "get_payoffs"
    /\ last.outcome = [move_1 |-> "Cooperate", move_2 |-> "Defect",
                       payoff_1 |-> state.payoff_matrix.s,
                       payoff_2 |-> state.payoff_matrix.t]
    /\ state.payoff_matrix.t > state.payoff_matrix.r
    /\ state.payoff_matrix.r > state.payoff_matrix.p
    /\ state.payoff_matrix.p > state.payoff_matrix.s
    /\ state.payoff_matrix # PayoffMatrixDefault

----------------------------------------------------------------------------
\* the reputation returned by the last call of calculate_from_moves
Calculated == last.op = "calculate_from_moves"
Rep == last.outcome

\* cooperative_moves * 100 / total_moves rounded to the nearest integer,
\* halves away from zero, in exact arithmetic (total_moves > 0)
ExactScore(total_moves, cooperative_moves) ==
    (100 * (cooperative_moves \div total_moves))
    + (((200 * (cooperative_moves % total_moves)) + total_moves) \div (2 * total_moves))

\* C21: for every pair of counts, cooperative_moves > total_moves included,
\* the score calculate_from_moves returns is an integer in [0, 100]: 50 when
\* total_moves = 0, and otherwise cooperative_moves * 100 / total_moves
\* rounded half away from zero.
C21_ScoreInRange ==
    Calculated =>
        /\ Rep.reputation_score.hi = 0
        /\ Rep.reputation_score.lo <= 100
        /\ Rep.total_moves = 0 => Rep.reputation_score.lo = 50
        /\ Rep.total_moves > 0 =>
               Rep.reputation_score.lo = ExactScore(Rep.total_moves, Rep.cooperative_moves)

----------------------------------------------------------------------------
\* score / 2 rounded half away from zero, in exact arithmetic
HalfUp(score) == ExactAdd(U32Half(score), U32(0, score.lo % 2))

\* score * multiplier rounded half away from zero, in exact arithmetic, for
\* the multipliers 1.5, 1.0 and 0.5 of the tiers 2, 1 and 0
ExactVotingPower(score, tier) ==
    CASE tier = 2 -> ExactAdd(score, HalfUp(score))
      [] tier = 1 -> score
      [] tier = 0 -> HalfUp(score)

\* scores beside which the voting power of a calculated score is compared:
\* every score up to 101, and scores near the end of u32
ClaimScores ==
    {U32(0, s) : s \in 0..101} \cup {U32(43690, 43696), U32(Limb - 1, Limb - 2), U32Max}

\* the voting power calculate_from_moves gives each of these scores
ClaimScorePowers == {<<s, VotingPower(s, TierOf(s)[2])>> : s \in ClaimScores}

\* C22: the tier is 2 (multiplier 1.5) when score >= 75, 1 (multiplier 1.0)
\* when 50 <= score < 75 and 0 (multiplier 0.5) when score < 50;
\* voting_power is score * multiplier rounded half away from zero; the counts
\* (10, 8), (10, 6), (10, 3) and (0, 0) give 80/2/120, 60/1/60, 30/0/15 and
\* 50/1/50; and voting_power never decreases as the score increases.
C22_TierAndVotingPower ==
    Calculated =>
        LET score == Rep.reputation_score
            given == <<Rep.total_moves, Rep.cooperative_moves>>
            got == <<score, Rep.tier, Rep.voting_power>>
        IN  /\ Rep.tier = 2 <=> ~U32Gt(U32(0, 75), score)
            /\ Rep.tier = 1 <=> (~U32Gt(U32(0, 50), score) /\ U32Gt(U32(0, 75), score))
            /\ Rep.tier = 0 <=> U32Gt(U32(0, 50), score)
            /\ Rep.voting_power = ExactVotingPower(score, Rep.tier)
            /\ given = <<10, 8>> => got = <<U32(0, 80), 2, U32(0, 120)>>
            /\ given = <<10, 6>> => got = <<U32(0, 60), 1, U32(0, 60)>>
            /\ given = <<10, 3>> => got = <<U32(0, 30), 0, U32(0, 15)>>
            /\ given = <<0, 0>> => got = <<U32(0, 50), 1, U32(0, 50)>>
            /\ \A sp \in ClaimScorePowers :
                   /\ U32Gt(sp[1], score) => ~U32Gt(Rep.voting_power, sp[2])
                   /\ U32Gt(score, sp[1]) => ~U32Gt(sp[2], Rep.voting_power)

----------------------------------------------------------------------------
\* C23: no operation aborts the process.  For every input in the declared
\* integer ranges, vote, has_passed, execute_proposal, create_proposal and
\* play_round either return an explicit failure or complete with the
\* arithmetically exact result: no overflow in the power sums, the score
\* accumulators or the id and round counters.
C23_NoAbortNoOverflow ==
    /\ ~panicked
    /\ \A id \in ClaimIds, who \in Voters, v \in Vote, t \in TimestampInputs :
           LET res == GovVote(Gov, overflow_checks, id, who.address, v,
                              who.voter_reputation, who.voting_power, t)
               i == FindProposal(Gov, id)
               p == res.gov.proposals[i]
           IN  /\ res.result.kind \in {"Ok", "Err"}
               /\ res.result.kind = "Ok" =>
                      ExactAdd(ExactAdd(p.yes_voting_power, p.no_voting_power),
                               p.abstain_voting_power)
                      = ExactPower(res.gov.voting_rounds[i].votes, 1)
    /\ \A i \in 1..Len(proposals) :
           LET p == proposals[i]
               s1 == U32Add(p.yes_voting_power, p.no_voting_power)
               s2 == U32Add(s1.val, p.abstain_voting_power)
           IN  /\ ~HasPassed(p, overflow_checks).panic
               /\ ~s1.overflow /\ ~s2.overflow
    /\ \A id \in ClaimIds : ExecuteProposal(Gov, overflow_checks, id).result.kind \in {"Ok", "Err"}
    /\ \A ty \in ProposalTypeInputs, d \in Descriptions :
           CreateProposal(Gov, ty, d).result = OkId(next_proposal_id)
    /\ \A a \in Move, b \in Move :
           LET res == PlayRound(state, overflow_checks, a, b)
               pay == GetPayoffs(a, b, state.payoff_matrix)
           IN  /\ res.result.kind \in {"Ok", "Err"}
               /\ res.result.kind = "Ok" =>
                      /\ ~I32Add(state.score_1, pay[1]).overflow
                      /\ ~I32Add(state.score_2, pay[2]).overflow
                      /\ res.state.round = state.round + 1

----------------------------------------------------------------------------
\* the run of the entry point has written an output
Written == prover.stdout # <<>>

\* every code of the sequence is 0 or 1
Binary(codes) == \A i \in 1..Len(codes) : codes[i] \in {0, 1}

\* the raw matrix [R, T, S, P] has T > R, R > P and P > S
Ordered(payoffs) ==
    payoffs[2] > payoffs[1] /\ payoffs[1] > payoffs[4] /\ payoffs[4] > payoffs[3]

\* the entry point writes an output only for an input that is valid, aborts
\* without output on one that is not, and its output carries the result of
\* calculate_from_moves for the counts it carries
OutputOnlyWhen(valid) ==
    /\ Written =>
           LET out == prover.stdout[1]
               rep == CalculateFromMoves(out.player_address, out.total_moves,
                                         out.cooperative_moves)
           IN  /\ prover.pc = "done"
               /\ valid
               /\ out.cooperative_moves <= out.total_moves
               /\ out.reputation_score = rep.reputation_score
               /\ out.tier = rep.tier
               /\ out.voting_power = rep.voting_power
    /\ prover.pc = "aborted" => ~Written
    /\ (prover.pc # "read" /\ ~valid) => (~Written /\ prover.pc # "done")

\* C24, as claimed: the entry point produces an output only when every raw
\* move code in its input is 0 or 1 and the raw matrix satisfies T > R,
\* R > P and P > S; on any violation it aborts without writing output; and
\* when it does produce output, cooperative_moves <= total_moves and the
\* score, tier and voting_power equal calculate_from_moves of those counts.
C24_OutputOnlyForValidInput ==
    OutputOnlyWhen(/\ Binary(prover.input.moves)
                   /\ Binary(prover.input.opponent_moves)
                   /\ Ordered(prover.input.payoffs))

\* C24, amended: the move codes that must be 0 or 1 are those of the field
\* moves; the codes of opponent_moves are neither checked nor used.  The
\* entry point produces an output only when every code in moves is 0 or 1
\* and the raw matrix satisfies T > R, R > P and P > S; on a violation of
\* either it aborts without writing output; and when it does produce output,
\* cooperative_moves <= total_moves and the score, tier and voting_power
\* equal calculate_from_moves of those counts.
C24_OutputOnlyForValidMoves ==
    OutputOnlyWhen(Binary(prover.input.moves) /\ Ordered(prover.input.payoffs))

\* an output was written for two moves, one of them cooperative, beside an
\* opponent's code that is neither 0 nor 1
C24_Witness ==
    /\ Written
    /\ prover.input.opponent_moves = <<5>>
    /\ prover.stdout[1].total_moves = 2
    /\ prover.stdout[1].cooperative_moves = 1
    /\ prover.stdout[1].reputation_score = U32(0, 50)

----------------------------------------------------------------------------
\* the tally invariant for the i-th proposal: its vote counts add up to the
\* number of votes in its log, its power counters to their exact power
Tallied(i) ==
    LET p == proposals[i]
        votes == voting_rounds[i].votes
    IN  /\ p.yes_votes + p.no_votes + p.abstain_votes = Len(votes)
        /\ ExactAdd(ExactAdd(p.yes_voting_power, p.no_voting_power),
                    p.abstain_voting_power)
           = ExactPower(votes, 1)

\* C26: each mutating ledger operation takes effect as one atomic step over
\* the whole GovernanceState.  With several callers issuing votes on the same
\* ledger in any interleaving, no other operation observes or acts on a state
\* in which a vote has been appended to the log but the counters have not
\* been recomputed (the only step from such a state is the tally of that
\* vote), so the tally invariant holds at every operation boundary.
C26_AtomicOperations ==
    /\ [][pending # NoPending =>
              /\ pending' = NoPending
              /\ last'.op = "vote"
              /\ voting_rounds' = voting_rounds
              /\ dependent_apps' = dependent_apps
              /\ next_proposal_id' = next_proposal_id
              /\ \A i \in 1..Len(proposals) :
                     proposals[i].id # pending.proposal_id => proposals'[i] = proposals[i]]_vars
    /\ []((pending = NoPending /\ ~panicked) => \A i \in 1..Len(proposals) : Tallied(i))

----------------------------------------------------------------------------
\* games of one round played to their end with the given build, for each
\* matrix of the model, beside the game of the state
FinishedGames(checks) ==
    LET new == {GameStateNewWithPayoffs(1, m) : m \in PayoffMatrices}
        played == {PlayRound(st, checks, a, b) : st \in new, a \in Move, b \in Move}
    IN  {state} \cup {r.state : r \in {x \in played : x.result = OkUnit}}

\* C27: every failing operation leaves the state exactly as it was.  A vote
\* rejected with ProposalNotFound, VotingClosed or AlreadyVoted, an
\* execute_proposal rejected with ProposalNotFound or AlreadyExecuted, a
\* register_dependent_app rejected with DuplicateApp and a play_round
\* rejected with GameFinished change no proposal, vote log, voted-address
\* list, id counter, registry entry, history, score or round counter: so it
\* is of every call made, and of every call that could be made in the state.
C27_FailureChangesNothing ==
    /\ [][last'.result.kind = "Err" => UNCHANGED <<govVars, state>>]_vars
    /\ [](/\ \A id \in ClaimIds, who \in Voters, v \in Vote, t \in TimestampInputs :
                LET res == GovVote(Gov, overflow_checks, id, who.address, v,
                                   who.voter_reputation, who.voting_power, t)
                IN  res.result \in {ProposalNotFound, VotingClosed, AlreadyVoted(who.address)}
                        => res.gov = Gov
          /\ \A id \in ClaimIds :
                LET res == ExecuteProposal(Gov, overflow_checks, id)
                IN  res.result \in {ProposalNotFound, AlreadyExecuted} => res.gov = Gov
          /\ \A id \in ClaimAppIds, name \in ClaimAppNames, tier \in ClaimTiers :
                LET res == RegisterDependentApp(Gov, id, name, tier)
                IN  res.result = DuplicateApp(id) => res.gov = Gov
          /\ \A st \in FinishedGames(overflow_checks), a \in Move, b \in Move :
                LET res == PlayRound(st, overflow_checks, a, b)
                IN  /\ st.round >= st.total_rounds => res.result = GameFinished
                    /\ res.result = GameFinished => res.state = st)

\* a vote was just rejected with AlreadyVoted on a ledger that holds a
\* proposal, a vote and an app
C27_Witness ==
    /\ last.op = "vote"
    /\ last.result = AlreadyVoted("alice")
    /\ Len(proposals) = 1
    /\ Len(voting_rounds[1].votes) = 1
    /\ Len(dependent_apps) = 1

----------------------------------------------------------------------------
\* the sum of the payoffs of a player over the first k recorded move pairs
\* of the game st, and whether that sum leaves i32 on the way
RECURSIVE PayoffSum(_, _, _)
PayoffSum(st, k, player) ==
    IF k = 0 THEN [val |-> 0, overflow |-> FALSE]
    ELSE LET before == PayoffSum(st, k - 1, player)
             pay == GetPayoffs(st.history_1[k], st.history_2[k], st.payoff_matrix)
             sum == I32Add(before.val, pay[player])
         IN  [val |-> sum.val, overflow |-> before.overflow \/ sum.overflow]

\* h is a prefix of g
IsPrefix(h, g) == Len(h) <= Len(g) /\ SubSeq(g, 1, Len(h)) = h

\* C28: in every state reachable from a new game through play_round,
\* round = len(history_1) = len(history_2) <= total_rounds, score_1 and
\* score_2 equal the sums of the per-round payoffs of the recorded move
\* pairs, and every earlier history is a prefix of every later one.
C28_GameInvariant ==
    /\ []((~panicked) =>
              /\ state.round = Len(state.history_1)
              /\ state.round = Len(state.history_2)
              /\ state.round <= state.total_rounds
              /\ ~PayoffSum(state, state.round, 1).overflow
              /\ ~PayoffSum(state, state.round, 2).overflow
              /\ state.score_1 = PayoffSum(state, state.round, 1).val
              /\ state.score_2 = PayoffSum(state, state.round, 2).val)
    /\ [][/\ IsPrefix(state.history_1, state'.history_1)
          /\ IsPrefix(state.history_2, state'.history_2)]_vars

====
